---- MODULE Spec2Model ----
(***************************************************************************)
(* The "generate" command of the update creator tool: two distribution     *)
(* archives are read into node trees and compared, giving the modified,    *)
(* removed and added files of an update.                                   *)
(*                                                                         *)
(* Strings are sequences of one-character strings, so that strings.Split,  *)
(* strings.SplitN, strings.HasSuffix and the "+" of relative paths are     *)
(* computed and not assumed.  A node tree is a function from the key path  *)
(* of a node (the child keys followed from the root) to the node's fields; *)
(* the root itself is the empty key path and has the zero relativePath.    *)
(***************************************************************************)
EXTENDS Naturals, Sequences, FiniteSets, TLC

\* Number of archive entries of the two distributions of a run together.
MaxEntries == 4

\* Number of archive entries of a distribution that is compared with itself.
MaxSelf == 3

\* Number of archive entries of the two distributions of a run together, for
\* the distributions with files below the features directory.
MaxFeatureEntries == 3
MaxFaultEntries == 2
MaxTreeEntries == 4
MaxInterruptEntries == 2
MaxListed == 2
MaxValidateEntries == 1

\* ------------------------------------------------------------------------
\* Strings
\* ------------------------------------------------------------------------

\* strings.Contains(s, c) for a one-character c
Contains(s, c) == \E k \in 1..Len(s) : s[k] = c

\* strings.HasSuffix(s, c) for a one-character c
HasSuffix(s, c) == Len(s) > 0 /\ s[Len(s)] = c

\* strings.TrimSuffix(s, c) for a one-character c
TrimSuffix(s, c) == IF HasSuffix(s, c) THEN SubSeq(s, 1, Len(s) - 1) ELSE s

\* index of the first occurrence of c in s (s contains c)
IndexOf(s, c) == CHOOSE k \in 1..Len(s) : s[k] = c /\ \A j \in 1..(k - 1) : s[j] # c

\* strings.SplitN(s, c, 2)
SplitN2(s, c) ==
    IF Contains(s, c)
    THEN << SubSeq(s, 1, IndexOf(s, c) - 1), SubSeq(s, IndexOf(s, c) + 1, Len(s)) >>
    ELSE << s >>

\* strings.Split(s, c): the pieces between the occurrences of c, empty ones kept
RECURSIVE Split(_, _)
Split(s, c) ==
    IF Contains(s, c)
    THEN << SubSeq(s, 1, IndexOf(s, c) - 1) >> \o Split(SubSeq(s, IndexOf(s, c) + 1, Len(s)), c)
    ELSE << s >>

\* p is a prefix of q (sequences of any kind)
IsPrefix(p, q) == Len(p) <= Len(q) /\ SubSeq(q, 1, Len(p)) = p

\* ------------------------------------------------------------------------
\* Archive entries (zip.File)
\* ------------------------------------------------------------------------

\* The entries a distribution archive may hold.  Every name starts with the
\* top-level directory of the distribution; data is the content read from the
\* entry (0: no bytes, as for a directory entry).
EntryUniverse ==
    { [name |-> << "d", "/" >>,                data |-> 0],
      [name |-> << "d", "/", "a", "/" >>,      data |-> 0],
      [name |-> << "d", "/", "a", "/", "x" >>, data |-> 1],
      [name |-> << "d", "/", "a", "/", "x" >>, data |-> 2],
      [name |-> << "d", "/", "a", "/", "y" >>, data |-> 1],
      [name |-> << "d", "/", "a" >>,           data |-> 1] }

\* file.FileInfo().IsDir(): archive/zip marks a name ending in "/" as a directory
IsDir(file) == HasSuffix(file.name, "/")

\* md5 of the entry's bytes, hex encoded; md5 of no bytes is d41d8cd9...
Md5(data) == IF data = 0 THEN "d41d8cd9" ELSE IF data = 1 THEN "c4ca4238" ELSE "c81e728d"

\* util.GetRelativePath(file): the name without its top-level directory
GetRelativePath(file) ==
    IF Contains(file.name, "/") THEN SplitN2(file.name, "/")[2] ELSE file.name

\* ------------------------------------------------------------------------
\* Node tree
\* ------------------------------------------------------------------------

\* createNewNode(): a root without children
createNewNode == << >>

\* relativePath of the node at key path at; the root has the zero value
RelativePathOf(tree, at) == IF at = << >> THEN << >> ELSE tree[at].relativePath

\* NewRelativePath without the test for a parent whose relativePath is empty
NewRelativePath_AlwaysJoined(tree, at, seg) ==
    RelativePathOf(tree, at) \o << "/" >> \o seg

\* relativePath given to a new child named seg of the node at key path at
NewRelativePath(tree, at, seg) ==
    IF Len(RelativePathOf(tree, at)) = 0
    THEN seg
    ELSE RelativePathOf(tree, at) \o << "/" >> \o seg

\* root.childNodes[seg] = &newNode: the new node has no children, whatever
\* node was the child seg before is no longer reachable, with all below it
SetChild(tree, at, seg, newNode) ==
    LET key == Append(at, seg)
        kept == { q \in DOMAIN tree : ~IsPrefix(key, q) }
    IN  [q \in kept \cup {key} |-> IF q = key THEN newNode ELSE tree[q]]

\* addToRootNode that makes a new directory node for every path element that
\* is not the last, without looking for the one already in childNodes
RECURSIVE addToRootNode_NoContainsCheck(_, _, _, _, _)
addToRootNode_NoContainsCheck(tree, at, path, isDir, md5Hash) ==
    IF Len(path) = 1
    THEN SetChild(tree, at, path[1],
                  [name |-> path[1], isDir |-> isDir, md5Hash |-> md5Hash,
                   relativePath |-> NewRelativePath(tree, at, path[1])])
    ELSE addToRootNode_NoContainsCheck(
                  SetChild(tree, at, path[1],
                           [name |-> path[1], isDir |-> TRUE, md5Hash |-> "",
                            relativePath |-> NewRelativePath(tree, at, path[1])]),
                  Append(at, path[1]), Tail(path), isDir, md5Hash)

RECURSIVE addToRootNode(_, _, _, _, _)
addToRootNode(tree, at, path, isDir, md5Hash) ==
    IF Len(path) = 1
    THEN SetChild(tree, at, path[1],
                  [name |-> path[1], isDir |-> isDir, md5Hash |-> md5Hash,
                   relativePath |-> NewRelativePath(tree, at, path[1])])
    ELSE IF Append(at, path[1]) \in DOMAIN tree
         THEN addToRootNode(tree, Append(at, path[1]), Tail(path), isDir, md5Hash)
         ELSE addToRootNode(
                  SetChild(tree, at, path[1],
                           [name |-> path[1], isDir |-> TRUE, md5Hash |-> "",
                            relativePath |-> NewRelativePath(tree, at, path[1])]),
                  Append(at, path[1]), Tail(path), isDir, md5Hash)

\* the body of the loop of readZip for one entry
readZipEntry(tree, file) ==
    addToRootNode(tree, << >>, Split(GetRelativePath(file), "/"), IsDir(file), Md5(file.data))

\* nodeExists that reports every node it reaches as found, of either type
RECURSIVE nodeExists_AnyType(_, _, _, _)
nodeExists_AnyType(tree, at, path, isDir) ==
    IF Append(at, path[1]) \in DOMAIN tree
    THEN IF Len(path) > 1
         THEN nodeExists_AnyType(tree, Append(at, path[1]), Tail(path), isDir)
         ELSE [found |-> TRUE, node |-> Append(at, path[1])]
    ELSE [found |-> FALSE, node |-> << >>]

\* nodeExists: found, and the key path of the node returned (<< >> for nil)
RECURSIVE nodeExists(_, _, _, _)
nodeExists(tree, at, path, isDir) ==
    IF Append(at, path[1]) \in DOMAIN tree
    THEN IF Len(path) > 1
         THEN nodeExists(tree, Append(at, path[1]), Tail(path), isDir)
         ELSE [found |-> tree[Append(at, path[1])].isDir = isDir, node |-> Append(at, path[1])]
    ELSE [found |-> FALSE, node |-> << >>]

pathExists(tree, relativePath, isDir) == nodeExists(tree, << >>, Split(relativePath, "/"), isDir)

\* ------------------------------------------------------------------------
\* Classification
\* ------------------------------------------------------------------------

\* findModifiedFiles without the comparison of the digests
findModifiedFiles_NoDigestCheck(tree, fileName, md5Hash, relativePath, modified) ==
    LET r == pathExists(tree, relativePath, FALSE)
    IN  IF r.found THEN modified \cup { tree[r.node].relativePath } ELSE modified

\* findModifiedFiles with the comparison of the digests turned round
findModifiedFiles_EqualDigest(tree, fileName, md5Hash, relativePath, modified) ==
    LET r == pathExists(tree, relativePath, FALSE)
    IN  IF r.found /\ tree[r.node].md5Hash = md5Hash
        THEN modified \cup { tree[r.node].relativePath }
        ELSE modified

\* findModifiedFiles testing the returned node for nil in place of found
findModifiedFiles_NodeNotNil(tree, fileName, md5Hash, relativePath, modified) ==
    LET r == pathExists(tree, relativePath, FALSE)
    IN  IF r.node # << >> /\ tree[r.node].md5Hash # md5Hash
        THEN modified \cup { tree[r.node].relativePath }
        ELSE modified

findModifiedFiles(tree, fileName, md5Hash, relativePath, modified) ==
    LET r == pathExists(tree, relativePath, FALSE)
    IN  IF r.found /\ tree[r.node].md5Hash # md5Hash
        THEN modified \cup { tree[r.node].relativePath }
        ELSE modified

\* findNonExistentFiles recording the file name in place of the relative path
findNonExistentFiles_FileName(tree, fileName, relativePath, matches) ==
    IF ~pathExists(tree, relativePath, FALSE).found
    THEN matches \cup { fileName }
    ELSE matches

\* findNonExistentFiles looking the path up as a directory
findNonExistentFiles_AsDirectory(tree, fileName, relativePath, matches) ==
    IF ~pathExists(tree, relativePath, TRUE).found
    THEN matches \cup { relativePath }
    ELSE matches

\* findNonExistentFiles keeping only the match made last
findNonExistentFiles_Overwrite(tree, fileName, relativePath, matches) ==
    IF ~pathExists(tree, relativePath, FALSE).found
    THEN { relativePath }
    ELSE matches

\* findNonExistentFiles testing the returned node for nil in place of found
findNonExistentFiles_NodeNil(tree, fileName, relativePath, matches) ==
    IF pathExists(tree, relativePath, FALSE).node = << >>
    THEN matches \cup { relativePath }
    ELSE matches

\* findNonExistentFiles looking up the file name in place of the relative path
findNonExistentFiles_ByName(tree, fileName, relativePath, matches) ==
    IF ~pathExists(tree, fileName, FALSE).found
    THEN matches \cup { relativePath }
    ELSE matches

findNonExistentFiles(tree, fileName, relativePath, matches) ==
    IF ~pathExists(tree, relativePath, FALSE).found
    THEN matches \cup { relativePath }
    ELSE matches

\* the recursive revision without its walk into the directories
findModifiedFilesRecursive_TopOnly(tree, root, fileName, md5Hash, relativePath, modifiedFiles) ==
    LET childNode == Append(root, fileName)
    IN  IF /\ childNode \in DOMAIN tree
           /\ ~tree[childNode].isDir
           /\ tree[childNode].relativePath = relativePath
           /\ tree[childNode].md5Hash # md5Hash
        THEN modifiedFiles \cup { tree[childNode].relativePath }
        ELSE modifiedFiles

\* The earlier revision of findModifiedFiles: it looks the file name up among
\* the children of the node it stands at, accepts a child that is a file with
\* the relative path of the entry and another digest, and then walks into
\* every child that is a directory.
RECURSIVE findModifiedFilesRecursive(_, _, _, _, _, _)
findModifiedFilesRecursive(tree, root, fileName, md5Hash, relativePath, modifiedFiles) ==
    LET childNode == Append(root, fileName)
        found == childNode \in DOMAIN tree
        here == IF /\ found
                   /\ ~tree[childNode].isDir
                   /\ tree[childNode].relativePath = relativePath
                   /\ tree[childNode].md5Hash # md5Hash
                THEN modifiedFiles \cup { tree[childNode].relativePath }
                ELSE modifiedFiles
        childNodes == { p \in DOMAIN tree : /\ Len(p) = Len(root) + 1
                                            /\ SubSeq(p, 1, Len(root)) = root }
    IN  here \cup UNION { findModifiedFilesRecursive(tree, p, fileName, md5Hash,
                                                     relativePath, { }) :
                          p \in { q \in childNodes : tree[q].isDir } }

\* fileName as the loops of generateUpdate compute it: the last segment of the
\* entry name without its trailing "/"
FileNameOf(file) ==
    LET segs == Split(TrimSuffix(file.name, "/"), "/") IN segs[Len(segs)]

\* The revision compared here keeps three maps; it has no collection of
\* removed directories, and pass 1 skips every directory entry.
removedDirectories == { }

\* ------------------------------------------------------------------------
\* Update descriptor and its mutator
\* ------------------------------------------------------------------------

\* strings.HasPrefix(s, p)
HasPrefix(s, p) == IsPrefix(p, s)

\* strings.TrimPrefix(s, p)
TrimPrefix(s, p) == IF HasPrefix(s, p) THEN SubSeq(s, Len(p) + 1, Len(s)) ELSE s

\* featurePrefix := "wso2/lib/features/"
featurePrefix ==
    << "w", "s", "o", "2", "/", "l", "i", "b", "/",
       "f", "e", "a", "t", "u", "r", "e", "s", "/" >>

\* The update-descriptor.yaml written by the init command, as
\* util.LoadUpdateDescriptor parses it: no file changes yet.
NewDescriptor ==
    [Update_number    |-> "0001",
     Platform_version |-> "4.4.0",
     File_changes     |-> [Added_files    |-> << >>,
                           Removed_files  |-> << >>,
                           Modified_files |-> << >>]]

\* The orders in which a range loop may visit the keys of a map: all of them.
Orders(S) ==
    { f \in [1..Cardinality(S) -> S] : \A j, k \in 1..Cardinality(S) : f[j] = f[k] => j = k }

\* the loop over removedFiles that appends every removed file as it is
RECURSIVE appendRemovedFiles_NoFeatures(_, _, _)
appendRemovedFiles_NoFeatures(order, removedFeatureNames, Removed_files) ==
    IF Len(order) = 0 THEN Removed_files
    ELSE appendRemovedFiles_NoFeatures(Tail(order), removedFeatureNames,
                                       Append(Removed_files, Head(order)))

\* the loop over removedFiles that does not look a feature name up in
\* removedFeatureNames
RECURSIVE appendRemovedFiles_NotFound(_, _, _)
appendRemovedFiles_NotFound(order, removedFeatureNames, Removed_files) ==
    IF Len(order) = 0 THEN Removed_files
    ELSE LET removedFile == Head(order)
         IN  IF HasPrefix(removedFile, featurePrefix)
             THEN appendRemovedFiles_NotFound(Tail(order), removedFeatureNames,
                      Append(Removed_files,
                             featurePrefix \o SplitN2(TrimPrefix(removedFile, featurePrefix), "/")[1]))
             ELSE appendRemovedFiles_NotFound(Tail(order), removedFeatureNames,
                                              Append(Removed_files, removedFile))

\* the loop over removedFiles of modifyUpdateDescriptor, the keys visited in
\* the given order
RECURSIVE appendRemovedFiles(_, _, _)
appendRemovedFiles(order, removedFeatureNames, Removed_files) ==
    IF Len(order) = 0 THEN Removed_files
    ELSE LET removedFile == Head(order)
             removedFeatureName == SplitN2(TrimPrefix(removedFile, featurePrefix), "/")[1]
         IN  IF HasPrefix(removedFile, featurePrefix)
             THEN IF removedFeatureName \notin removedFeatureNames
                  THEN appendRemovedFiles(Tail(order),
                                          removedFeatureNames \cup { removedFeatureName },
                                          Append(Removed_files, featurePrefix \o removedFeatureName))
                  ELSE appendRemovedFiles(Tail(order), removedFeatureNames, Removed_files)
             ELSE appendRemovedFiles(Tail(order), removedFeatureNames,
                                     Append(Removed_files, removedFile))

\* modifyUpdateDescriptor that assigns the three lists in place of appending
modifyUpdateDescriptor_Assign(modifiedOrder, removedOrder, addedOrder, descriptor) ==
    [descriptor EXCEPT
        !.File_changes =
            [Modified_files |-> modifiedOrder,
             Removed_files  |-> appendRemovedFiles(removedOrder, { }, << >>),
             Added_files    |-> addedOrder]]

\* modifyUpdateDescriptor, the three maps visited in the given orders
modifyUpdateDescriptor(modifiedOrder, removedOrder, addedOrder, descriptor) ==
    [descriptor EXCEPT
        !.File_changes =
            [Modified_files |-> @.Modified_files \o modifiedOrder,
             Removed_files  |-> appendRemovedFiles(removedOrder, { }, @.Removed_files),
             Added_files    |-> @.Added_files \o addedOrder]]

\* ------------------------------------------------------------------------
\* Content streams of archive entries, and the temp directory
\* ------------------------------------------------------------------------

\* a run without a failing file.Open() or ioutil.ReadAll()
NoFault == [phase |-> "none", at |-> 0, kind |-> "none"]

\* file.Open() of entry at of the loop phase returns an error
OpenFails(f, phase, at) == f = [phase |-> phase, at |-> at, kind |-> "open"]

\* ioutil.ReadAll(zippedFile): the bytes read.  With an error the bytes are
\* those read before it: none, or all of them (an error met at the end).
ReadAll(f, phase, at, file) ==
    IF f = [phase |-> phase, at |-> at, kind |-> "read"]
    THEN { 0, file.data }
    ELSE { file.data }

\* Close() put off to the end of the function, as defer does
CloseStream_Deferred(streams, s) == streams

\* zippedFile.Close()
CloseStream(streams, s) == streams \ { s }

\* constant.TEMP_DIR before copyResourceFilesToTemp and after CleanUpDirectory
NoTempDir == [exists |-> FALSE, resources |-> FALSE, descriptor |-> << >>, files |-> << >>]

\* the destination cannot be made in the temp directory: a directory on the way
\* to it is a file there, or the destination itself is a directory there
DestinationBlocked(files, fileName) ==
    \E q \in DOMAIN files :
        \/ IsPrefix(q \o << "/" >>, fileName)
        \/ IsPrefix(fileName \o << "/" >>, q)

\* the file written at fileName below carbon.home in the temp directory
WriteFile(files, fileName, data) ==
    [q \in DOMAIN files \cup { fileName } |-> IF q = fileName THEN data ELSE files[q]]

\* ------------------------------------------------------------------------
\* generateUpdate, one step per archive entry stream opened, read or copied
\* ------------------------------------------------------------------------
VARIABLES
    updatedDist,                    \* updatedDistributionReader.Reader.File
    previousDist,                   \* previousDistributionReader.Reader.File
    descriptorFile,                 \* update-descriptor.yaml of the update directory
    fault,                          \* the file.Open() or ReadAll() that fails, if any
    pc,                             \* position in generateUpdate
    idx,                            \* index of the next entry of the running loop
    copying,                        \* extraction: the map the entry is looked up in next
    openStreams,                    \* entry content streams opened and not closed
    rootNodeOfUpdatedDistribution,
    rootNodeOfPreviousDistribution,
    modifiedFiles,
    removedFiles,
    addedFiles,
    updateDescriptor,               \* the descriptor struct in memory
    tempDir,                        \* constant.TEMP_DIR
    updateZip,                      \* <update name>.zip of the update directory
    validation                      \* a run of validateUpdateZip

inputs == << updatedDist, previousDist, descriptorFile, fault >>

trees == << rootNodeOfUpdatedDistribution, rootNodeOfPreviousDistribution >>

maps == << modifiedFiles, removedFiles, addedFiles >>

outputs == << updateDescriptor, tempDir, updateZip >>

vars == << inputs, pc, idx, copying, openStreams, trees, maps, outputs, validation >>

Archives(n) == UNION { [1..k -> EntryUniverse] : k \in 0..n }

\* validateUpdateZip has not been called
NotValidated ==
    [pc                             |-> "load",
     updateDescriptor               |-> NewDescriptor,
     rootNodeOfUpdatezip            |-> createNewNode,
     rootNodeOfPreviousDistribution |-> createNewNode,
     error                          |-> << >>]

\* generateUpdate has loaded the descriptor and made the two zip readers
Loaded ==
    /\ pc = "readUpdated"
    /\ idx = 1
    /\ copying = "added"
    /\ openStreams = { }
    /\ rootNodeOfUpdatedDistribution = createNewNode
    /\ rootNodeOfPreviousDistribution = createNewNode
    /\ modifiedFiles = { }
    /\ removedFiles = { }
    /\ addedFiles = { }
    /\ updateDescriptor = descriptorFile
    /\ tempDir = NoTempDir
    /\ updateZip = << >>
    /\ validation = NotValidated

\* The two archives of a run are any two entry lists of together at most
\* MaxEntries entries, or twice the same list of at most MaxSelf entries.
\* Every stream opens and is read to its end.
Init ==
    /\ \/ /\ updatedDist \in Archives(MaxEntries)
          /\ previousDist \in Archives(MaxEntries - Len(updatedDist))
       \/ /\ updatedDist \in Archives(MaxSelf)
          /\ previousDist = updatedDist
    /\ descriptorFile = NewDescriptor
    /\ fault = NoFault
    /\ Loaded

\* the content stream of the running loop's entry
Stream == << pc, idx, copying >>

\* util.HandleErrorAndExit(err) with an error: the process ends, and its open
\* streams with it; the temp directory is left or removed
HandleErrorAndExit ==
    /\ pc' = "failed"
    /\ openStreams' = { }
    /\ tempDir' \in { tempDir, NoTempDir }
    /\ UNCHANGED << inputs, validation, idx, copying, trees, maps, updateDescriptor, updateZip >>

\* file.Open() of the running loop's entry
OpenEntry ==
    /\ Stream \notin openStreams
    /\ IF OpenFails(fault, pc, idx)
       THEN HandleErrorAndExit
       ELSE /\ openStreams' = openStreams \cup { Stream }
            /\ UNCHANGED << inputs, validation, pc, idx, copying, trees, maps, outputs >>

\* readZip(updatedDistributionReader, ...): file.Open() of one entry
ReadUpdatedOpen ==
    /\ pc = "readUpdated"
    /\ idx <= Len(updatedDist)
    /\ OpenEntry

\* readZip(updatedDistributionReader, ...): the entry is read, closed and added
ReadUpdatedEntry ==
    /\ pc = "readUpdated"
    /\ idx <= Len(updatedDist)
    /\ Stream \in openStreams
    /\ \E data \in ReadAll(fault, pc, idx, updatedDist[idx]) :
           rootNodeOfUpdatedDistribution' =
               readZipEntry(rootNodeOfUpdatedDistribution,
                            [updatedDist[idx] EXCEPT !.data = data])
    /\ openStreams' = CloseStream(openStreams, Stream)
    /\ idx' = idx + 1
    /\ UNCHANGED << inputs, validation, pc, copying, rootNodeOfPreviousDistribution, maps, outputs >>

\* readZip returning between any two entries, before the end of the archive
ReadUpdatedReturn_Early ==
    /\ pc = "readUpdated"
    /\ openStreams = { }
    /\ pc' = "pass1"
    /\ idx' = 1
    /\ modifiedFiles' = { }
    /\ removedFiles' = { }
    /\ addedFiles' = { }
    /\ UNCHANGED << inputs, validation, copying, openStreams, trees, outputs >>

\* readZip returns; the three maps are made
ReadUpdatedReturn ==
    /\ pc = "readUpdated"
    /\ idx > Len(updatedDist)
    /\ pc' = "pass1"
    /\ idx' = 1
    /\ modifiedFiles' = { }
    /\ removedFiles' = { }
    /\ addedFiles' = { }
    /\ UNCHANGED << inputs, validation, copying, openStreams, trees, outputs >>

\* the loop over the previous distribution: file.Open() of one entry
Pass1Open ==
    /\ pc = "pass1"
    /\ idx <= Len(previousDist)
    /\ OpenEntry

\* the loop over the previous distribution: one entry read, closed and compared
Pass1Entry ==
    /\ pc = "pass1"
    /\ idx <= Len(previousDist)
    /\ Stream \in openStreams
    /\ \E data \in ReadAll(fault, pc, idx, previousDist[idx]) :
        LET file == previousDist[idx]
            md5Hash == Md5(data)
            relativePath == GetRelativePath(file)
            fileName == FileNameOf(file)
        IN  IF relativePath # << >> /\ ~IsDir(file)
            THEN /\ modifiedFiles' = findModifiedFiles(rootNodeOfUpdatedDistribution, fileName,
                                                       md5Hash, relativePath, modifiedFiles)
                 /\ removedFiles' = findNonExistentFiles(rootNodeOfUpdatedDistribution, fileName,
                                                         relativePath, removedFiles)
            ELSE UNCHANGED << modifiedFiles, removedFiles >>
    /\ openStreams' = CloseStream(openStreams, Stream)
    /\ idx' = idx + 1
    /\ UNCHANGED << inputs, validation, pc, copying, trees, addedFiles, outputs >>

Pass1End ==
    /\ pc = "pass1"
    /\ idx > Len(previousDist)
    /\ pc' = "readPrevious"
    /\ idx' = 1
    /\ UNCHANGED << inputs, validation, copying, openStreams, trees, maps, outputs >>

\* readZip(previousDistributionReader, ...): file.Open() of one entry
ReadPreviousOpen ==
    /\ pc = "readPrevious"
    /\ idx <= Len(previousDist)
    /\ OpenEntry

\* readZip(previousDistributionReader, ...) called with the root of the updated
\* distribution: the entry is added below that root, which is returned
ReadPreviousEntry_IntoUpdatedRoot ==
    /\ pc = "readPrevious"
    /\ idx <= Len(previousDist)
    /\ Stream \in openStreams
    /\ \E data \in ReadAll(fault, pc, idx, previousDist[idx]) :
           rootNodeOfUpdatedDistribution' =
               readZipEntry(rootNodeOfUpdatedDistribution,
                            [previousDist[idx] EXCEPT !.data = data])
    /\ rootNodeOfPreviousDistribution' = rootNodeOfUpdatedDistribution'
    /\ openStreams' = CloseStream(openStreams, Stream)
    /\ idx' = idx + 1
    /\ UNCHANGED << inputs, validation, pc, copying, maps, outputs >>

\* readZip(previousDistributionReader, ...): the entry is read, closed and added
ReadPreviousEntry ==
    /\ pc = "readPrevious"
    /\ idx <= Len(previousDist)
    /\ Stream \in openStreams
    /\ \E data \in ReadAll(fault, pc, idx, previousDist[idx]) :
           rootNodeOfPreviousDistribution' =
               readZipEntry(rootNodeOfPreviousDistribution,
                            [previousDist[idx] EXCEPT !.data = data])
    /\ openStreams' = CloseStream(openStreams, Stream)
    /\ idx' = idx + 1
    /\ UNCHANGED << inputs, validation, pc, copying, rootNodeOfUpdatedDistribution, maps, outputs >>

ReadPreviousReturn ==
    /\ pc = "readPrevious"
    /\ idx > Len(previousDist)
    /\ pc' = "pass2"
    /\ idx' = 1
    /\ UNCHANGED << inputs, validation, copying, openStreams, trees, maps, outputs >>

\* the loop over the updated distribution: one entry
Pass2Entry ==
    /\ pc = "pass2"
    /\ idx <= Len(updatedDist)
    /\ LET file == updatedDist[idx]
           relativePath == GetRelativePath(file)
           fileName == FileNameOf(file)
       IN  IF relativePath # << >> /\ ~IsDir(file)
           THEN addedFiles' = findNonExistentFiles(rootNodeOfPreviousDistribution, fileName,
                                                   relativePath, addedFiles)
           ELSE UNCHANGED addedFiles
    /\ idx' = idx + 1
    /\ UNCHANGED << inputs, validation, pc, copying, openStreams, trees, modifiedFiles, removedFiles, outputs >>

Pass2End ==
    /\ pc = "pass2"
    /\ idx > Len(updatedDist)
    /\ pc' = "classified"
    /\ idx' = 1
    /\ UNCHANGED << inputs, validation, copying, openStreams, trees, maps, outputs >>

\* modifyUpdateDescriptor(modifiedFiles, removedFiles, addedFiles, updateDescriptor)
ModifyUpdateDescriptor ==
    /\ pc = "classified"
    /\ \E modifiedOrder \in Orders(modifiedFiles), removedOrder \in Orders(removedFiles),
          addedOrder \in Orders(addedFiles) :
           updateDescriptor' = modifyUpdateDescriptor(modifiedOrder, removedOrder, addedOrder,
                                                      updateDescriptor)
    /\ pc' = "copyResources"
    /\ UNCHANGED << inputs, validation, idx, copying, openStreams, trees, maps, tempDir, updateZip >>

\* copyResourceFilesToTemp(): the temp directory is made, with carbon.home and
\* the resource files of the update directory in it
CopyResourceFilesToTemp ==
    /\ pc = "copyResources"
    /\ tempDir' = [tempDir EXCEPT !.exists = TRUE, !.resources = TRUE]
    /\ pc' = "save"
    /\ UNCHANGED << inputs, validation, idx, copying, openStreams, trees, maps, updateDescriptor, updateZip >>

\* marshalUpdateDescriptor and saveUpdateDescriptor
SaveUpdateDescriptor ==
    /\ pc = "save"
    /\ tempDir' = [tempDir EXCEPT !.descriptor = << updateDescriptor >>]
    /\ pc' = "extract"
    /\ UNCHANGED << inputs, validation, idx, copying, openStreams, trees, maps, updateDescriptor, updateZip >>

\* fileName of the extraction loop: the entry name without its first element
ExtractedName(file) ==
    IF Contains(file.name, "/") THEN SplitN2(file.name, "/")[2] ELSE file.name

\* the extraction loop goes on to its next lookup: modifiedFiles for the same
\* entry, or addedFiles for the next entry
ExtractAdvance ==
    IF copying = "added"
    THEN copying' = "modified" /\ idx' = idx
    ELSE copying' = "added" /\ idx' = idx + 1

\* the extraction loop looking every entry up in addedFiles only
LookedUpIn_AddedOnly == addedFiles

\* the map the extraction loop looks the entry up in
LookedUpIn == IF copying = "added" THEN addedFiles ELSE modifiedFiles

\* the extraction loop: the entry is not in the map
ExtractSkip ==
    /\ pc = "extract"
    /\ idx <= Len(updatedDist)
    /\ ExtractedName(updatedDist[idx]) \notin LookedUpIn
    /\ ExtractAdvance
    /\ UNCHANGED << inputs, validation, pc, openStreams, trees, maps, outputs >>

\* copyFileToTempDir: the parent directories and the new file are made, and
\* the entry is opened
ExtractOpen ==
    /\ pc = "extract"
    /\ idx <= Len(updatedDist)
    /\ ExtractedName(updatedDist[idx]) \in LookedUpIn
    /\ Stream \notin openStreams
    /\ IF DestinationBlocked(tempDir.files, ExtractedName(updatedDist[idx]))
       THEN HandleErrorAndExit
       ELSE /\ tempDir' = [tempDir EXCEPT
                              !.files = WriteFile(@, ExtractedName(updatedDist[idx]), 0)]
            /\ openStreams' = openStreams \cup { Stream }
            /\ UNCHANGED << inputs, validation, pc, idx, copying, trees, maps, updateDescriptor, updateZip >>

\* copyFileToTempDir: io.Copy of the entry to the new file; the entry is closed
ExtractCopy ==
    /\ pc = "extract"
    /\ idx <= Len(updatedDist)
    /\ Stream \in openStreams
    /\ tempDir' = [tempDir EXCEPT
                      !.files = WriteFile(@, ExtractedName(updatedDist[idx]), updatedDist[idx].data)]
    /\ openStreams' = CloseStream(openStreams, Stream)
    /\ ExtractAdvance
    /\ UNCHANGED << inputs, validation, pc, trees, maps, updateDescriptor, updateZip >>

\* the extraction loop ends; the two readers are closed
ExtractEnd ==
    /\ pc = "extract"
    /\ idx > Len(updatedDist)
    /\ pc' = "zip"
    /\ idx' = 1
    /\ UNCHANGED << inputs, validation, copying, openStreams, trees, maps, outputs >>

\* archiver.Zip.Make called inside the extraction loop, between two entries
MakeZip_InsideLoop ==
    /\ pc = "extract"
    /\ openStreams = { }
    /\ updateZip' = << tempDir >>
    /\ pc' = "cleanup"
    /\ UNCHANGED << inputs, validation, idx, copying, openStreams, trees, maps, updateDescriptor, tempDir >>

\* archiver.Zip.Make(<update root>/<update name>.zip, the temp directory of the update)
MakeZip ==
    /\ pc = "zip"
    /\ updateZip' = << tempDir >>
    /\ pc' = "cleanup"
    /\ UNCHANGED << inputs, validation, idx, copying, openStreams, trees, maps, updateDescriptor, tempDir >>

\* util.CleanUpDirectory(constant.TEMP_DIR)
CleanUp ==
    /\ pc = "cleanup"
    /\ tempDir' = NoTempDir
    /\ pc' = "done"
    /\ UNCHANGED << inputs, validation, idx, copying, openStreams, trees, maps, updateDescriptor, updateZip >>

Next ==
    \/ ReadUpdatedOpen
    \/ ReadUpdatedEntry
    \/ ReadUpdatedReturn
    \/ Pass1Open
    \/ Pass1Entry
    \/ Pass1End
    \/ ReadPreviousOpen
    \/ ReadPreviousEntry
    \/ ReadPreviousReturn
    \/ Pass2Entry
    \/ Pass2End
    \/ ModifyUpdateDescriptor
    \/ CopyResourceFilesToTemp
    \/ SaveUpdateDescriptor
    \/ ExtractSkip
    \/ ExtractOpen
    \/ ExtractCopy
    \/ ExtractEnd
    \/ MakeZip
    \/ CleanUp

Spec == Init /\ [][Next]_vars

\* ------------------------------------------------------------------------
\* Runs on distributions with features
\* ------------------------------------------------------------------------

\* Entries below wso2/lib/features/: two files of feature f, one of them with
\* two contents, a file of feature g, a file in the features directory itself;
\* and a file outside it.
FeatureEntryUniverse ==
    { [name |-> << "d", "/" >> \o featurePrefix \o << "f", "/", "x" >>, data |-> 1],
      [name |-> << "d", "/" >> \o featurePrefix \o << "f", "/", "x" >>, data |-> 2],
      [name |-> << "d", "/" >> \o featurePrefix \o << "f", "/", "y" >>, data |-> 1],
      [name |-> << "d", "/" >> \o featurePrefix \o << "g", "/", "x" >>, data |-> 1],
      [name |-> << "d", "/" >> \o featurePrefix \o << "r" >>,           data |-> 1],
      [name |-> << "d", "/", "a", "/", "x" >>,                          data |-> 1] }

FeatureArchives(n) == UNION { [1..k -> FeatureEntryUniverse] : k \in 0..n }

\* An update-descriptor.yaml whose file changes were written by hand before
\* the run.
EditedDescriptor ==
    [NewDescriptor EXCEPT
        !.File_changes =
            [Added_files    |-> << << "a", "/", "x" >> >>,
             Removed_files  |-> << featurePrefix \o << "g" >> >>,
             Modified_files |-> << featurePrefix \o << "f", "/", "x" >> >>]]

\* The two archives of a run are any two lists of together at most
\* MaxFeatureEntries of these entries; the descriptor is new or edited.
FeatureInit ==
    /\ updatedDist \in FeatureArchives(MaxFeatureEntries)
    /\ previousDist \in FeatureArchives(MaxFeatureEntries - Len(updatedDist))
    /\ descriptorFile \in { NewDescriptor, EditedDescriptor }
    /\ fault = NoFault
    /\ Loaded

FeatureSpec == FeatureInit /\ [][Next]_vars

\* ------------------------------------------------------------------------
\* Runs in which one entry's content stream fails
\* ------------------------------------------------------------------------

\* The places of a run where file.Open() or ioutil.ReadAll can fail during tree
\* building and pass 1: one entry of one loop, at its open or at its read.
FaultPlans(updated, previous) ==
    { [phase |-> "readUpdated", at |-> i, kind |-> k] :
          i \in 1..Len(updated), k \in { "open", "read" } }
    \cup
    { [phase |-> ph, at |-> i, kind |-> k] :
          ph \in { "pass1", "readPrevious" }, i \in 1..Len(previous),
          k \in { "open", "read" } }

\* The two archives of a run are any two entry lists of together at most
\* MaxFaultEntries entries; one stream of the run fails.
FaultInit ==
    /\ updatedDist \in Archives(MaxFaultEntries)
    /\ previousDist \in Archives(MaxFaultEntries - Len(updatedDist))
    /\ descriptorFile = NewDescriptor
    /\ fault \in FaultPlans(updatedDist, previousDist)
    /\ Loaded

FaultSpec == FaultInit /\ [][Next]_vars

\* ------------------------------------------------------------------------
\* readZip alone, over one archive
\* ------------------------------------------------------------------------

\* An interrupt signal reaching the process during generateUpdate.  The
\* function registers no handler for signals, so the process ends at once and
\* runs none of the remaining statements: the staging directory stays as it is.
Interrupt ==
    /\ pc \notin { "done", "failed", "interrupted" }
    /\ pc' = "interrupted"
    /\ UNCHANGED << inputs, validation, idx, copying, openStreams, trees, maps, outputs >>

InterruptInit ==
    /\ updatedDist \in Archives(MaxInterruptEntries)
    /\ previousDist \in Archives(MaxInterruptEntries)
    /\ descriptorFile = NewDescriptor
    /\ fault = NoFault
    /\ Loaded

InterruptNext == Next \/ Interrupt

InterruptSpec == InterruptInit /\ [][InterruptNext]_vars

\* the entries of EntryUniverse and a file three levels below the top-level
\* directory
TreeEntryUniverse ==
    EntryUniverse \cup { [name |-> << "d", "/", "a", "/", "x", "/", "z" >>, data |-> 1] }

TreeArchives(n) == UNION { [1..k -> TreeEntryUniverse] : k \in 0..n }

\* The archive readZip reads is any list of at most MaxTreeEntries entries.
TreeInit ==
    /\ updatedDist \in TreeArchives(MaxTreeEntries)
    /\ previousDist = << >>
    /\ descriptorFile = NewDescriptor
    /\ fault = NoFault
    /\ Loaded

\* the steps of readZip(updatedDistributionReader, ...)
TreeNext ==
    \/ ReadUpdatedOpen
    \/ ReadUpdatedEntry
    \/ ReadUpdatedReturn

TreeSpec == TreeInit /\ [][TreeNext]_vars

\* ------------------------------------------------------------------------
\* Whole loops as functions of the entry list, for statements that compare
\* a run with the run on another list
\* ------------------------------------------------------------------------

\* readZip over entries[k..]
RECURSIVE readZipFrom(_, _, _)
readZipFrom(tree, entries, k) ==
    IF k > Len(entries) THEN tree
    ELSE readZipFrom(readZipEntry(tree, entries[k]), entries, k + 1)

readZip(entries) == readZipFrom(createNewNode, entries, 1)

\* the loop of pass 1 over entries[k..]: << modifiedFiles, removedFiles >>
RECURSIVE pass1From(_, _, _, _, _)
pass1From(tree, entries, k, modified, removed) ==
    IF k > Len(entries) THEN << modified, removed >>
    ELSE LET file == entries[k]
             relativePath == GetRelativePath(file)
         IN  IF relativePath # << >> /\ ~IsDir(file)
             THEN pass1From(tree, entries, k + 1,
                      findModifiedFiles(tree, FileNameOf(file), Md5(file.data), relativePath, modified),
                      findNonExistentFiles(tree, FileNameOf(file), relativePath, removed))
             ELSE pass1From(tree, entries, k + 1, modified, removed)

\* the loop of pass 2 over entries[k..]: addedFiles
RECURSIVE pass2From(_, _, _, _)
pass2From(tree, entries, k, added) ==
    IF k > Len(entries) THEN added
    ELSE LET file == entries[k]
             relativePath == GetRelativePath(file)
         IN  IF relativePath # << >> /\ ~IsDir(file)
             THEN pass2From(tree, entries, k + 1,
                      findNonExistentFiles(tree, FileNameOf(file), relativePath, added))
             ELSE pass2From(tree, entries, k + 1, added)

\* the three maps generateUpdate ends with for the two entry lists
Classify(updated, previous) ==
    LET p1 == pass1From(readZip(updated), previous, 1, { }, { })
    IN  << p1[1], p1[2], pass2From(readZip(previous), updated, 1, { }) >>

\* ------------------------------------------------------------------------
\* Vocabulary of the statements
\* ------------------------------------------------------------------------

\* strings.Join(segs, "/")
RECURSIVE Join(_)
Join(segs) ==
    IF Len(segs) = 0 THEN << >>
    ELSE IF Len(segs) = 1 THEN segs[1]
    ELSE segs[1] \o << "/" >> \o Join(Tail(segs))

\* the key path an entry is inserted at
Target(file) == Split(GetRelativePath(file), "/")

\* key path p is inserted as a directory by the list: as the target of a
\* directory entry, or on the way to the target of any entry
InsertedAsDir(entries, p) ==
    \E k \in 1..Len(entries) :
        \/ Target(entries[k]) = p /\ IsDir(entries[k])
        \/ IsPrefix(p, Target(entries[k])) /\ Target(entries[k]) # p

\* key path p is inserted as a file by the list
InsertedAsFile(entries, p) ==
    \E k \in 1..Len(entries) : Target(entries[k]) = p /\ ~IsDir(entries[k])

\* no path is inserted twice with conflicting file/directory type
NoTypeConflict(entries) ==
    \A k \in 1..Len(entries) :
        ~(InsertedAsFile(entries, Target(entries[k])) /\ InsertedAsDir(entries, Target(entries[k])))

\* no path is inserted twice with different content digests
NoDigestConflict(entries) ==
    \A j, k \in 1..Len(entries) :
        Target(entries[j]) = Target(entries[k]) => Md5(entries[j].data) = Md5(entries[k].data)

\* The entry list is that of a distribution in the sense of the glossary, a
\* directory tree: every path is one file with one content, or one directory.
WellFormed(entries) == NoTypeConflict(entries) /\ NoDigestConflict(entries)

\* the permutations of 1..n, for every n up to the longest archive
AllPerms ==
    UNION { { f \in [1..n -> 1..n] : \A j, k \in 1..n : f[j] = f[k] => j = k } :
              n \in 0..MaxEntries }

Perms(n) == { f \in AllPerms : Len(f) = n }

Permute(entries, f) == [k \in 1..Len(entries) |-> entries[f[k]]]

\* the entry lists that enumerate the entries of the list in another order
Reorderings(entries) == { Permute(entries, f) : f \in Perms(Len(entries)) }

\* what a tree is compared by: the reachable paths, each with its type and digest
TreeView(tree) == [p \in DOMAIN tree |-> << tree[p].isDir, tree[p].md5Hash >>]

\* the paths of the directories above relative path r
Ancestors(r) ==
    LET segs == Split(r, "/")
    IN  { Join(SubSeq(segs, 1, k)) : k \in 1..(Len(segs) - 1) }

FileLookupFails(tree, r) == ~pathExists(tree, r, FALSE).found

Pass1Done == pc \in { "readPrevious", "pass2", "classified" }

\* ------------------------------------------------------------------------
\* Runs over two distributions
\* ------------------------------------------------------------------------

\* The two archives of a run are those of two distributions: entry lists as in
\* Init, in each of which every path is one file with one content or one
\* directory.
DistributionInit ==
    /\ Init
    /\ WellFormed(updatedDist)
    /\ WellFormed(previousDist)

DistributionSpec == DistributionInit /\ [][Next]_vars

\* ------------------------------------------------------------------------
\* C1  Identity
\* ------------------------------------------------------------------------

\* C1 as stated: for every list of archive entries D, the run with D as the
\* updated and as the previous distribution ends with modified, removed and
\* added all empty.
C1_IdentityAnyList ==
    (pc = "classified" /\ updatedDist = previousDist)
        => (modifiedFiles = { } /\ removedFiles = { } /\ addedFiles = { })

\* C1 amended: for every list of archive entries D in which no path is
\* inserted twice with conflicting type or with different content, the run with
\* D as the updated and as the previous distribution ends with modified,
\* removed and added all empty.
C1_Identity ==
    (pc = "classified" /\ updatedDist = previousDist /\ WellFormed(updatedDist))
        => (modifiedFiles = { } /\ removedFiles = { } /\ addedFiles = { })

C1_Witness ==
    /\ pc = "classified"
    /\ updatedDist = previousDist
    /\ WellFormed(updatedDist)
    /\ Cardinality({ k \in 1..Len(updatedDist) : ~IsDir(updatedDist[k]) }) = 2
    /\ \E k \in 1..Len(updatedDist) : IsDir(updatedDist[k])

\* ------------------------------------------------------------------------
\* C2  Disjointness
\* ------------------------------------------------------------------------

\* C2: at no point of a run is a relative path in both modified and removed;
\* for any two distributions, after both passes no relative path is in both
\* modified and added.
C2_Disjointness ==
    /\ modifiedFiles \cap removedFiles = { }
    /\ (pc = "classified" /\ WellFormed(updatedDist) /\ WellFormed(previousDist))
           => modifiedFiles \cap addedFiles = { }

C2_Witness ==
    /\ pc = "classified"
    /\ WellFormed(updatedDist)
    /\ WellFormed(previousDist)
    /\ modifiedFiles # { }
    /\ removedFiles # { }

\* ------------------------------------------------------------------------
\* C3  Completeness of removal
\* ------------------------------------------------------------------------

\* C3: every non-directory entry of the previous distribution visited by
\* pass 1 whose relative path has no file node in the updated tree has either
\* its own path in removedFiles or exactly one ancestor directory in
\* removedDirectories, and never both.
C3_RemovalComplete ==
    \A k \in 1..Len(previousDist) :
        LET r == GetRelativePath(previousDist[k])
            recorded == Ancestors(r) \cap removedDirectories
        IN  ( /\ Pass1Done \/ (pc = "pass1" /\ k < idx)
              /\ ~IsDir(previousDist[k])
              /\ FileLookupFails(rootNodeOfUpdatedDistribution, r) )
            => \/ r \in removedFiles /\ recorded = { }
               \/ r \notin removedFiles /\ Cardinality(recorded) = 1

C3_Witness ==
    /\ pc = "classified"
    /\ Cardinality(removedFiles) = 2
    /\ \E k \in 1..Len(previousDist) :
           /\ ~IsDir(previousDist[k])
           /\ ~FileLookupFails(rootNodeOfUpdatedDistribution, GetRelativePath(previousDist[k]))

\* ------------------------------------------------------------------------
\* C4  Directory collapse
\* ------------------------------------------------------------------------

\* the previous distribution has a file below the directory of entry k
FilesBelow(entries, k) ==
    { j \in 1..Len(entries) :
        /\ ~IsDir(entries[j])
        /\ TrimSuffix(GetRelativePath(entries[k]), "/") \in Ancestors(GetRelativePath(entries[j])) }

\* C4: when the previous distribution has a directory with files below it
\* and the updated tree has no node at the directory's path, the directory is
\* recorded as a removed directory and none of the files below it is in
\* removedFiles.
C4_DirectoryCollapse ==
    pc = "classified" =>
        \A k \in 1..Len(previousDist) :
            ( /\ IsDir(previousDist[k])
              /\ GetRelativePath(previousDist[k]) # << >>
              /\ FilesBelow(previousDist, k) # { }
              /\ Split(TrimSuffix(GetRelativePath(previousDist[k]), "/"), "/")
                     \notin DOMAIN rootNodeOfUpdatedDistribution )
            => /\ TrimSuffix(GetRelativePath(previousDist[k]), "/") \in removedDirectories
               /\ \A j \in FilesBelow(previousDist, k) :
                      GetRelativePath(previousDist[j]) \notin removedFiles

\* ------------------------------------------------------------------------
\* C5  Modification detection
\* ------------------------------------------------------------------------

\* C5: after pass 1, modified is the set of the relative paths R of the
\* non-directory entries of the previous distribution for which the updated
\* tree has a file node at R with another digest than the entry's; and for any
\* two distributions, after both passes a path that is a file with the same
\* digest on both sides is in none of modified, removed, added.
C5_Modification ==
    /\ Pass1Done =>
          modifiedFiles =
              { GetRelativePath(previousDist[k]) :
                  k \in { j \in 1..Len(previousDist) :
                            /\ ~IsDir(previousDist[j])
                            /\ ~FileLookupFails(rootNodeOfUpdatedDistribution,
                                                GetRelativePath(previousDist[j]))
                            /\ rootNodeOfUpdatedDistribution[Target(previousDist[j])].md5Hash
                                   # Md5(previousDist[j].data) } }
    /\ (pc = "classified" /\ WellFormed(updatedDist) /\ WellFormed(previousDist)) =>
          \A j \in 1..Len(previousDist), k \in 1..Len(updatedDist) :
              ( /\ ~IsDir(previousDist[j])
                /\ ~IsDir(updatedDist[k])
                /\ GetRelativePath(previousDist[j]) = GetRelativePath(updatedDist[k])
                /\ Md5(previousDist[j].data) = Md5(updatedDist[k].data) )
              => GetRelativePath(previousDist[j])
                     \notin (modifiedFiles \cup removedFiles \cup addedFiles)

C5_Witness ==
    /\ pc = "classified"
    /\ WellFormed(updatedDist)
    /\ WellFormed(previousDist)
    /\ modifiedFiles # { }
    /\ \E j \in 1..Len(previousDist), k \in 1..Len(updatedDist) :
           /\ ~IsDir(previousDist[j])
           /\ previousDist[j] = updatedDist[k]

\* ------------------------------------------------------------------------
\* C6  Addition detection
\* ------------------------------------------------------------------------

\* C6: after pass 2, added is the set of the relative paths R of the
\* non-directory entries of the updated distribution with R not empty whose
\* file lookup in the previous tree fails; the path of a directory entry is
\* at no point in added.
C6_Addition ==
    /\ pc = "classified" =>
          addedFiles =
              { GetRelativePath(updatedDist[k]) :
                  k \in { j \in 1..Len(updatedDist) :
                            /\ ~IsDir(updatedDist[j])
                            /\ GetRelativePath(updatedDist[j]) # << >>
                            /\ FileLookupFails(rootNodeOfPreviousDistribution,
                                               GetRelativePath(updatedDist[j])) } }
    /\ addedFiles # { } =>
          \A k \in 1..Len(updatedDist) :
              IsDir(updatedDist[k]) =>
                  /\ GetRelativePath(updatedDist[k]) \notin addedFiles
                  /\ TrimSuffix(GetRelativePath(updatedDist[k]), "/") \in addedFiles
                         => ~WellFormed(updatedDist)

C6_Witness ==
    /\ pc = "classified"
    /\ addedFiles # { }
    /\ \E k \in 1..Len(updatedDist) :
           IsDir(updatedDist[k]) /\ GetRelativePath(updatedDist[k]) # << >>
    /\ \E k \in 1..Len(updatedDist) :
           /\ ~IsDir(updatedDist[k])
           /\ ~FileLookupFails(rootNodeOfPreviousDistribution, GetRelativePath(updatedDist[k]))

\* ------------------------------------------------------------------------
\* C8  Order independence of the classification
\* ------------------------------------------------------------------------

\* C8: for any two distributions, the modified, removed and added a run ends
\* with are those of the run in which the entries of either archive are
\* enumerated in any other order.
C8_OrderIndependence ==
    (pc = "classified" /\ WellFormed(updatedDist) /\ WellFormed(previousDist)) =>
        /\ \A u \in Reorderings(updatedDist) :
               Classify(u, previousDist) = << modifiedFiles, removedFiles, addedFiles >>
        /\ \A p \in Reorderings(previousDist) :
               Classify(updatedDist, p) = << modifiedFiles, removedFiles, addedFiles >>

C8_Witness ==
    /\ pc = "classified"
    /\ WellFormed(updatedDist)
    /\ WellFormed(previousDist)
    /\ Len(updatedDist) = 2
    /\ Len(previousDist) = 2
    /\ modifiedFiles # { }
    /\ removedFiles # { }

\* ------------------------------------------------------------------------
\* C9  Tree construction is commutative
\* ------------------------------------------------------------------------

\* C9 as stated: for an entry list in which no path is inserted twice with
\* conflicting file/directory type, the tree readZip has returned has the paths,
\* types and digests of the tree built from any permutation of the list.
C9_CommutativeSameType ==
    (pc = "pass1" /\ idx = 1 /\ NoTypeConflict(updatedDist)) =>
        \A u \in Reorderings(updatedDist) :
            TreeView(readZip(u)) = TreeView(rootNodeOfUpdatedDistribution)

\* C9 amended: for an entry list in which no path is inserted twice with
\* conflicting file/directory type or with different content digests, the
\* tree readZip returns has the paths, types and digests of the tree built
\* from any permutation of the list.
C9_Commutative ==
    /\ (pc = "pass1" /\ idx = 1 /\ WellFormed(updatedDist)) =>
          \A u \in Reorderings(updatedDist) :
              TreeView(readZip(u)) = TreeView(rootNodeOfUpdatedDistribution)
    /\ (pc = "pass2" /\ idx = 1 /\ WellFormed(previousDist)) =>
          \A p \in Reorderings(previousDist) :
              TreeView(readZip(p)) = TreeView(rootNodeOfPreviousDistribution)

C9_Witness ==
    /\ pc = "pass1"
    /\ idx = 1
    /\ WellFormed(updatedDist)
    /\ Len(updatedDist) >= 3
    /\ Cardinality(DOMAIN rootNodeOfUpdatedDistribution) >= 4

\* ------------------------------------------------------------------------
\* C10  Path invariant of the tree
\* ------------------------------------------------------------------------

PathInvariant(tree) ==
    \A p \in DOMAIN tree :
        /\ Len(p) > 0
        /\ tree[p].name = p[Len(p)]
        /\ tree[p].relativePath = Join(p)

C11_RootEntrySkipped ==
    /\ << << >> >> \notin DOMAIN rootNodeOfUpdatedDistribution
    /\ << << >> >> \notin DOMAIN rootNodeOfPreviousDistribution

\* ------------------------------------------------------------------------
\* C12  Tree lookup
\* ------------------------------------------------------------------------

\* the relative paths looked up: those of the entries, with and without the
\* trailing "/"
LookupPaths ==
    UNION { { GetRelativePath(e), TrimSuffix(GetRelativePath(e), "/") } : e \in EntryUniverse }

\* descending from the root by the segments of r finds a child at every level
Reaches(tree, r) ==
    \A k \in 1..Len(Split(r, "/")) : SubSeq(Split(r, "/"), 1, k) \in DOMAIN tree

LookupIsDescent(tree) ==
    \A r \in LookupPaths, isDir \in BOOLEAN :
        pathExists(tree, r, isDir).found
            <=> (Reaches(tree, r) /\ tree[Split(r, "/")].isDir = isDir)

\* C12: for every tree readZip builds, entry by entry, pathExists reports a
\* relative path as found with an expected type exactly when the descent from
\* the root by the segments of the path finds a child at every level and the
\* node reached has the expected type.
C12_TreeLookup ==
    /\ (pc = "readUpdated" /\ openStreams = { })
           => LookupIsDescent(rootNodeOfUpdatedDistribution)
    /\ (pc = "readPrevious" /\ openStreams = { })
           => LookupIsDescent(rootNodeOfPreviousDistribution)

C12_Witness ==
    /\ pc = "readUpdated"
    /\ openStreams = { }
    /\ \E r \in LookupPaths :
           /\ Reaches(rootNodeOfUpdatedDistribution, r)
           /\ rootNodeOfUpdatedDistribution[Split(r, "/")].isDir
           /\ ~pathExists(rootNodeOfUpdatedDistribution, r, FALSE).found
    /\ \E r \in LookupPaths :
           /\ Reaches(rootNodeOfUpdatedDistribution, r)
           /\ ~rootNodeOfUpdatedDistribution[Split(r, "/")].isDir
           /\ pathExists(rootNodeOfUpdatedDistribution, r, FALSE).found
    /\ \E r \in LookupPaths : ~Reaches(rootNodeOfUpdatedDistribution, r)

\* ------------------------------------------------------------------------
\* C13  Type change
\* ------------------------------------------------------------------------

\* relative path r is that of a file entry of the list
IsFileIn(entries, r) ==
    \E k \in 1..Len(entries) : ~IsDir(entries[k]) /\ GetRelativePath(entries[k]) = r

\* the relative paths of the file entries of the list below directory r
FilesUnder(entries, r) ==
    { GetRelativePath(entries[k]) :
        k \in { j \in 1..Len(entries) :
                  ~IsDir(entries[j]) /\ r \in Ancestors(GetRelativePath(entries[j])) } }

\* the relative paths of the file entries of the two lists
FilePaths ==
    { GetRelativePath(previousDist[k]) : k \in { j \in 1..Len(previousDist) : ~IsDir(previousDist[j]) } }
        \cup
    { GetRelativePath(updatedDist[k]) : k \in { j \in 1..Len(updatedDist) : ~IsDir(updatedDist[j]) } }

\* C13: for any two distributions, after both passes a relative path R that
\* is a file in the previous distribution and a directory in the updated one is
\* in removed and not in modified, and the files below R in the updated
\* distribution are in added; a relative path R that is a directory in the
\* previous distribution and a file in the updated one is in added and not in
\* modified.
C13_TypeChange ==
    (pc = "classified" /\ WellFormed(updatedDist) /\ WellFormed(previousDist)) =>
        \A R \in FilePaths :
            /\ (IsFileIn(previousDist, R) /\ InsertedAsDir(updatedDist, Split(R, "/")))
                   => /\ R \in removedFiles
                      /\ R \notin modifiedFiles
                      /\ FilesUnder(updatedDist, R) \subseteq addedFiles
            /\ (InsertedAsDir(previousDist, Split(R, "/")) /\ IsFileIn(updatedDist, R))
                   => /\ R \in addedFiles
                      /\ R \notin modifiedFiles

C13_Witness ==
    /\ pc = "classified"
    /\ WellFormed(updatedDist)
    /\ WellFormed(previousDist)
    /\ \E R \in FilePaths :
           /\ IsFileIn(previousDist, R)
           /\ InsertedAsDir(updatedDist, Split(R, "/"))
           /\ FilesUnder(updatedDist, R) # { }
           /\ R \in removedFiles

\* ------------------------------------------------------------------------
\* C14  Membership of the lists the mutator writes
\* ------------------------------------------------------------------------

\* modifyUpdateDescriptor has returned and the run goes on
Mutated == pc \in { "copyResources", "save", "extract", "zip", "cleanup", "done" }

\* the number of places of the list that hold s
Count(s, list) == Cardinality({ k \in 1..Len(list) : list[k] = s })

\* C14: when the three file change lists of the descriptor are empty before
\* the mutator runs, then afterwards every path of the modified set is exactly
\* once in Modified_files, every path of the added set exactly once in
\* Added_files, and no string is twice in Removed_files.
C14_MutatorMembership ==
    (Mutated /\ descriptorFile = NewDescriptor) =>
        /\ \A p \in modifiedFiles : Count(p, updateDescriptor.File_changes.Modified_files) = 1
        /\ \A p \in addedFiles : Count(p, updateDescriptor.File_changes.Added_files) = 1
        /\ \A k \in 1..Len(updateDescriptor.File_changes.Removed_files) :
               Count(updateDescriptor.File_changes.Removed_files[k],
                     updateDescriptor.File_changes.Removed_files) = 1

C14_Witness ==
    /\ pc = "copyResources"
    /\ descriptorFile = NewDescriptor
    /\ addedFiles # { }
    /\ Cardinality(removedFiles) = 2
    /\ Len(updateDescriptor.File_changes.Removed_files) = 1

\* ------------------------------------------------------------------------
\* C15  Removed files of a feature
\* ------------------------------------------------------------------------

\* <features root>/<feature name> of a path below the features root
FeatureRoot(p) == featurePrefix \o Split(TrimPrefix(p, featurePrefix), "/")[1]

\* what the run has appended to Removed_files
AppendedRemovedFiles ==
    SubSeq(updateDescriptor.File_changes.Removed_files,
           Len(descriptorFile.File_changes.Removed_files) + 1,
           Len(updateDescriptor.File_changes.Removed_files))

C16_MutatorFrame ==
    [][ (pc = "classified" /\ pc' # "classified") =>
            /\ [updateDescriptor' EXCEPT !.File_changes = updateDescriptor.File_changes]
                   = updateDescriptor
            /\ modifiedFiles' = modifiedFiles
            /\ removedFiles' = removedFiles
            /\ addedFiles' = addedFiles
            /\ IsPrefix(updateDescriptor.File_changes.Modified_files,
                        updateDescriptor'.File_changes.Modified_files)
            /\ IsPrefix(updateDescriptor.File_changes.Removed_files,
                        updateDescriptor'.File_changes.Removed_files)
            /\ IsPrefix(updateDescriptor.File_changes.Added_files,
                        updateDescriptor'.File_changes.Added_files) ]_vars

C16_Witness ==
    /\ pc = "copyResources"
    /\ descriptorFile = EditedDescriptor
    /\ modifiedFiles # { }
    /\ removedFiles # { }
    /\ Len(updateDescriptor.File_changes.Removed_files) = 2

\* ------------------------------------------------------------------------
\* C17  The trees after their construction
\* ------------------------------------------------------------------------

\* C17: no step of a run outside readZip of the updated distribution changes
\* the tree of the updated distribution, and no step outside readZip of the
\* previous distribution changes the tree of the previous distribution: not the
\* lookups of the two passes, the mutator, the extraction, nor an insertion into
\* the other tree.
C17_TreesReadOnly ==
    [][ /\ pc # "readUpdated"
            => rootNodeOfUpdatedDistribution' = rootNodeOfUpdatedDistribution
        /\ pc # "readPrevious"
            => rootNodeOfPreviousDistribution' = rootNodeOfPreviousDistribution ]_vars

C17_Witness ==
    /\ pc = "extract"
    /\ openStreams # { }
    /\ modifiedFiles # { }
    /\ Cardinality(DOMAIN rootNodeOfUpdatedDistribution) >= 2
    /\ Cardinality(DOMAIN rootNodeOfPreviousDistribution) >= 2
    /\ rootNodeOfUpdatedDistribution # rootNodeOfPreviousDistribution

\* ------------------------------------------------------------------------
\* C18  Each tree is complete before it is looked up in
\* ------------------------------------------------------------------------

\* C18: in every state of pass 1, where the tree of the updated distribution
\* is looked up in, that tree is the tree of all entries of the updated archive;
\* in every state of pass 2, where the tree of the previous distribution is
\* looked up in, that tree is the tree of all entries of the previous archive,
\* and modified and removed are those of pass 1 over all entries of the previous
\* archive.
C18_IndexBeforeWalk ==
    /\ pc = "pass1" => rootNodeOfUpdatedDistribution = readZip(updatedDist)
    /\ pc = "pass2" =>
          /\ rootNodeOfPreviousDistribution = readZip(previousDist)
          /\ << modifiedFiles, removedFiles >>
                 = pass1From(rootNodeOfUpdatedDistribution, previousDist, 1, { }, { })

C18_Witness ==
    /\ pc = "pass2"
    /\ idx = 2
    /\ Len(previousDist) = 2
    /\ modifiedFiles # { }
    /\ removedFiles # { }
    /\ addedFiles # { }

\* ------------------------------------------------------------------------
\* C19  Open content streams
\* ------------------------------------------------------------------------

\* C19: in every state of a run at most one content stream of an archive
\* entry is open.
C19_OneStreamOpen == Cardinality(openStreams) <= 1

C19_Witness ==
    /\ pc = "extract"
    /\ idx = 2
    /\ copying = "modified"
    /\ Cardinality(openStreams) = 1
    /\ Len(previousDist) = 2

\* ------------------------------------------------------------------------
\* C20  A stream that cannot be opened or read
\* ------------------------------------------------------------------------

\* the loops a run has entered when it is in the loop ph
PhasesUpTo(ph) ==
    IF ph = "readUpdated" THEN { "readUpdated" }
    ELSE IF ph = "pass1" THEN { "readUpdated", "pass1" }
    ELSE { "readUpdated", "pass1", "readPrevious" }

\* C20: in a run in which the content of an entry cannot be opened or cannot
\* be read during tree building or pass 1, the run never goes past that entry:
\* it is in a loop up to the failing one, at most at the failing entry, or it
\* has exited with the error; nothing is inserted or classified from that
\* entry's bytes, the descriptor is never saved and the update zip never made.
C20_ReadFailureFatal ==
    fault # NoFault =>
        /\ pc \in PhasesUpTo(fault.phase) \cup { "failed" }
        /\ pc = fault.phase => idx <= fault.at
        /\ tempDir.descriptor = << >>
        /\ updateZip = << >>

\* ------------------------------------------------------------------------
\* C21  What is copied into the temp directory
\* ------------------------------------------------------------------------

\* the files copied below carbon.home of the temp directory
Copied == DOMAIN tempDir.files

\* the relative paths that are a file with the same content in both lists
Unchanged ==
    { GetRelativePath(updatedDist[k]) :
        k \in { i \in 1..Len(updatedDist) :
                  /\ ~IsDir(updatedDist[i])
                  /\ \E j \in 1..Len(previousDist) :
                         /\ ~IsDir(previousDist[j])
                         /\ previousDist[j] = updatedDist[i] } }

\* C21: at every point of a run the files copied from the updated archive
\* below carbon.home of the temp directory are paths of added or modified, and
\* once the extraction loop has ended they are exactly added and modified,
\* each with the content of its entry in the updated archive, and so are the
\* files in the update zip; no path of a directory entry is copied, and for
\* two distributions no unchanged file and no removed path is copied.
C21_MinimalPatch ==
    /\ Copied \subseteq addedFiles \cup modifiedFiles
    /\ pc \in { "zip", "cleanup" } =>
          /\ Copied = addedFiles \cup modifiedFiles
          /\ \A k \in 1..Len(updatedDist) :
                 ExtractedName(updatedDist[k]) \in Copied =>
                     \E j \in k..Len(updatedDist) :
                         /\ ExtractedName(updatedDist[j]) = ExtractedName(updatedDist[k])
                         /\ tempDir.files[ExtractedName(updatedDist[k])] = updatedDist[j].data
    /\ pc \in { "cleanup", "done" } =>
          DOMAIN updateZip[1].files = addedFiles \cup modifiedFiles
    /\ Copied # { } =>
          /\ \A k \in 1..Len(updatedDist) :
                 IsDir(updatedDist[k]) => ExtractedName(updatedDist[k]) \notin Copied
          /\ (WellFormed(updatedDist) /\ WellFormed(previousDist)) =>
                 /\ Copied \cap Unchanged = { }
                 /\ Copied \cap removedFiles = { }

C21_Witness ==
    /\ pc = "cleanup"
    /\ WellFormed(updatedDist)
    /\ WellFormed(previousDist)
    /\ addedFiles # { }
    /\ modifiedFiles # { }
    /\ Cardinality(DOMAIN updateZip[1].files) = 2
    /\ \E k \in 1..Len(updatedDist) : IsDir(updatedDist[k])

\* ------------------------------------------------------------------------
\* C24  Order of the steps of a run
\* ------------------------------------------------------------------------

\* C24: in every step of a run that does not exit with an error, the
\* descriptor is changed only when the three sets are those of the two finished
\* passes; a file is copied to the temp directory only when the descriptor of
\* the run is saved there; the update zip is made only when the descriptor is
\* saved and all added and modified files are copied and closed; the temp
\* directory is deleted only when the update zip holds its content.
C24_PipelineOrder ==
    [][ pc' # "failed" =>
          /\ updateDescriptor' # updateDescriptor
                => /\ pc = "classified"
                   /\ << modifiedFiles, removedFiles, addedFiles >>
                          = Classify(updatedDist, previousDist)
          /\ tempDir'.files # tempDir.files /\ tempDir'.exists
                => tempDir.descriptor = << updateDescriptor >>
          /\ updateZip' # updateZip
                => /\ tempDir.descriptor = << updateDescriptor >>
                   /\ DOMAIN tempDir.files = addedFiles \cup modifiedFiles
                   /\ openStreams = { }
                   /\ pc = "zip"
          /\ tempDir.exists /\ ~tempDir'.exists
                => updateZip = << tempDir >> ]_vars

C24_Witness ==
    /\ pc = "done"
    /\ updateDescriptor # descriptorFile
    /\ Cardinality(DOMAIN updateZip[1].files) = 2
    /\ updateZip[1].descriptor = << updateDescriptor >>
    /\ ~tempDir.exists

\* ------------------------------------------------------------------------
\* C25  An entry inserted at a path that has a node
\* ------------------------------------------------------------------------

\* the step of readZip that inserts entry file into tree, giving tree2: the
\* node at the entry's path has the entry's type and digest, and every node
\* that was at or below that path is still in the tree
Reinserted(tree, file, tree2) ==
    Target(file) \in DOMAIN tree =>
        /\ tree2[Target(file)].isDir = IsDir(file)
        /\ tree2[Target(file)].md5Hash = Md5(file.data)
        /\ \A q \in DOMAIN tree : IsPrefix(Target(file), q) => q \in DOMAIN tree2

\* C25: in every step of readZip that inserts an entry at a path where the
\* tree has a node, the node at that path gets the type and the digest of the
\* entry, and every node inserted earlier below that path is in the tree after
\* the step.
C25_Reinsertion ==
    [][ /\ (pc = "readUpdated" /\ idx' = idx + 1)
            => Reinserted(rootNodeOfUpdatedDistribution, updatedDist[idx],
                          rootNodeOfUpdatedDistribution')
        /\ (pc = "readPrevious" /\ idx' = idx + 1)
            => Reinserted(rootNodeOfPreviousDistribution, previousDist[idx],
                          rootNodeOfPreviousDistribution') ]_vars

\* ------------------------------------------------------------------------
\* C26  Nodes on the way to an inserted path
\* ------------------------------------------------------------------------

\* C26: in the tree readZip returns for an entry list, every proper prefix
\* of the key path of every entry of the list is a node, and every node that is
\* the key path of no entry of the list is a directory with an empty digest.
C26_IntermediateDirectories ==
    pc = "pass1" =>
        /\ \A k \in 1..Len(updatedDist) :
               \A i \in 1..(Len(Target(updatedDist[k])) - 1) :
                   SubSeq(Target(updatedDist[k]), 1, i) \in DOMAIN rootNodeOfUpdatedDistribution
        /\ \A p \in DOMAIN rootNodeOfUpdatedDistribution :
               (\A k \in 1..Len(updatedDist) : Target(updatedDist[k]) # p)
                   => /\ rootNodeOfUpdatedDistribution[p].isDir
                      /\ rootNodeOfUpdatedDistribution[p].md5Hash = ""

\* ------------------------------------------------------------------------
\* C27  Removed and added
\* ------------------------------------------------------------------------

\* each relative path is the path of at most one entry of the list
OncePerArchive(entries) ==
    \A j, k \in 1..Len(entries) :
        GetRelativePath(entries[j]) = GetRelativePath(entries[k]) => j = k

Listed(list) == { list[k] : k \in 1..Len(list) }

\* C28: after the mutator has run on the sets of a run over two
\* distributions, with the file change lists of the descriptor empty before,
\* no entry of Removed_files is an entry of Added_files or Modified_files or
\* the path of a directory above one.
C28_RemovalNotCovering ==
    ( /\ Mutated
      /\ descriptorFile = NewDescriptor
      /\ WellFormed(updatedDist)
      /\ WellFormed(previousDist) )
        => \A r \in Listed(updateDescriptor.File_changes.Removed_files) :
               \A s \in Listed(updateDescriptor.File_changes.Added_files)
                           \cup Listed(updateDescriptor.File_changes.Modified_files) :
                   /\ r # s
                   /\ ~IsPrefix(r \o << "/" >>, s)

\* ------------------------------------------------------------------------
\* C30  The two revisions of findModifiedFiles
\* ------------------------------------------------------------------------

\* the set the recursive revision records for an entry on the finished tree
RecursiveRevision(file) ==
    findModifiedFilesRecursive(rootNodeOfUpdatedDistribution, << >>, FileNameOf(file),
                               Md5(file.data), GetRelativePath(file), { })

\* the set the revision with the direct lookup records for the same entry
DirectRevision(file) ==
    findModifiedFiles(rootNodeOfUpdatedDistribution, FileNameOf(file),
                      Md5(file.data), GetRelativePath(file), { })

\* the entries pass 1 hands to findModifiedFiles: files below the top directory
Compared == { file \in TreeEntryUniverse : GetRelativePath(file) # << >> /\ ~IsDir(file) }

\* C30: on every tree the tree builder has finished, and for every file name,
\* relative path and digest taken from an entry, the recursive revision and
\* the revision with the direct lookup record the same set of modified paths.
C30_RevisionsAgree ==
    pc = "pass1" => \A file \in Compared : RecursiveRevision(file) = DirectRevision(file)

\* C30 amended: the two revisions record the same set on every tree built
\* from a list in which no path is a file in one entry and a directory, or a
\* directory above another entry, in another.
C30_RevisionsAgreeWithoutTypeConflict ==
    ( pc = "pass1" /\ NoTypeConflict(updatedDist) )
        => \A file \in Compared : RecursiveRevision(file) = DirectRevision(file)

\* a finished tree without type conflict on which both revisions record a
\* modified path for an entry
C30_Witness ==
    /\ pc = "pass1"
    /\ NoTypeConflict(updatedDist)
    /\ \E file \in Compared : /\ RecursiveRevision(file) # { }
                              /\ RecursiveRevision(file) = DirectRevision(file)

\* ------------------------------------------------------------------------
\* C23  Interrupts and the staging directory
\* ------------------------------------------------------------------------

\* C23: when an interrupt has ended a run of generate, the temporary staging
\* directory the run had created is removed.
C23_InterruptCleanup == pc = "interrupted" => ~tempDir.exists

\* ------------------------------------------------------------------------
\* The validate command
\* ------------------------------------------------------------------------

\* the name of the update: the name of the update zip without ".zip"
updateName == "u"

\* constant.CARBON_HOME
CARBON_HOME == "carbon.home"

\* constant.UPDATE_DESCRIPTOR_FILE
UPDATE_DESCRIPTOR_FILE == "update-descriptor.yaml"

\* one resource file of the update directory
RESOURCE_FILE == "LICENSE.txt"

\* the directories above a path, each with its trailing "/"
DirectoriesAbove(p) == { SubSeq(p, 1, k) : k \in { j \in 1..Len(p) : p[j] = "/" } }

\* the files of the directory of the update in the temp directory, relative
\* to that directory, with their bytes
UpdateDirectoryFiles(dir) ==
    { [name |-> << CARBON_HOME, "/" >> \o q, data |-> dir.files[q]] : q \in DOMAIN dir.files }
        \cup { [name |-> << UPDATE_DESCRIPTOR_FILE >>, data |-> 0] : k \in DOMAIN dir.descriptor }
        \cup ( IF dir.resources THEN { [name |-> << RESOURCE_FILE >>, data |-> 0] } ELSE { } )

\* the entries of a set in an order that has every directory before what is in it
RECURSIVE WalkOrder(_)
WalkOrder(entries) ==
    IF entries = { } THEN << >>
    ELSE LET first == CHOOSE e \in entries : \A o \in entries : Len(e.name) <= Len(o.name)
         IN  << first >> \o WalkOrder(entries \ { first })

\* archiver.Zip.Make on the directory of the update: an entry for the
\* directory itself, for every directory below it and for every file, each
\* named from the name of the update on
ZipMake(dir) ==
    LET files == UpdateDirectoryFiles(dir)
        directories == { << >>, << CARBON_HOME, "/" >> }
                           \cup UNION { DirectoriesAbove(f.name) : f \in files }
    IN  WalkOrder({ [name |-> << updateName, "/" >> \o f.name, data |-> f.data] : f \in files }
                      \cup { [name |-> << updateName, "/" >> \o d, data |-> 0] : d \in directories })

\* updateZipReader.Reader.File
updateZipReader == ZipMake(updateZip[1])

\* addPathPrefix: constant.CARBON_HOME + "/" + file for every file of the list
addPathPrefix(files) == [k \in 1..Len(files) |-> << CARBON_HOME, "/" >> \o files[k]]

\* checkFileExistsInNodeTree looking every path up as a file
RECURSIVE checkFileExistsInNodeTree_AlwaysFile(_, _, _)
checkFileExistsInNodeTree_AlwaysFile(rootNode, files, k) ==
    IF k > Len(files) THEN << >>
    ELSE IF pathExists(rootNode, files[k], FALSE).found
         THEN checkFileExistsInNodeTree_AlwaysFile(rootNode, files, k + 1)
         ELSE << files[k] >>

\* checkFileExistsInNodeTree on files[k..]: << >> when every path is found,
\* else the path util.HandleErrorAndExit is called for
RECURSIVE checkFileExistsInNodeTree(_, _, _)
checkFileExistsInNodeTree(rootNode, files, k) ==
    IF k > Len(files) THEN << >>
    ELSE LET relativePath == files[k]
             found == IF HasSuffix(relativePath, "/")
                      THEN pathExists(rootNode, relativePath, TRUE).found
                      ELSE pathExists(rootNode, relativePath, FALSE).found
         IN  IF found
             THEN checkFileExistsInNodeTree(rootNode, files, k + 1)
             ELSE << relativePath >>

\* what all steps of validateUpdateZip leave alone
generateRun == << inputs, pc, idx, copying, openStreams, trees, maps, updateDescriptor, updateZip >>

\* validateUpdateZip up to util.LoadUpdateDescriptor: the descriptor of the
\* update zip is written to the temp directory and loaded from there
ValidateLoad ==
    /\ pc = "done"
    /\ updateZip # << >>
    /\ validation.pc = "load"
    /\ IF LET File == updateZipReader
          IN  \E k \in 1..Len(File) :
                  File[k].name = << updateName, "/", UPDATE_DESCRIPTOR_FILE >>
       THEN /\ tempDir' = [NoTempDir EXCEPT !.exists = TRUE, !.descriptor = updateZip[1].descriptor]
            /\ validation' = [validation EXCEPT !.pc = "updateZip",
                                                !.updateDescriptor = updateZip[1].descriptor[1]]
       ELSE /\ tempDir' = tempDir
            /\ validation' = [validation EXCEPT !.pc = "failed",
                                                !.error = << UPDATE_DESCRIPTOR_FILE >>]
    /\ UNCHANGED generateRun

\* validateUpdateZip from the tree of the update zip to the removal of the
\* temp directory: the added and the modified files are looked up under
\* carbon.home
ValidateUpdateZipTree ==
    /\ validation.pc = "updateZip"
    /\ LET rootNodeOfUpdatezip == readZipFrom(createNewNode, updateZipReader, 1)
           prefixedAddedFiles ==
               addPathPrefix(validation.updateDescriptor.File_changes.Added_files)
           prefixedModifiedFiles ==
               addPathPrefix(validation.updateDescriptor.File_changes.Modified_files)
           missingAdded == checkFileExistsInNodeTree(rootNodeOfUpdatezip, prefixedAddedFiles, 1)
           missingModified == checkFileExistsInNodeTree(rootNodeOfUpdatezip, prefixedModifiedFiles, 1)
       IN  IF missingAdded # << >> \/ missingModified # << >>
           THEN /\ validation' = [validation EXCEPT
                                     !.pc = "failed",
                                     !.rootNodeOfUpdatezip = rootNodeOfUpdatezip,
                                     !.error = IF missingAdded # << >> THEN missingAdded
                                               ELSE missingModified]
                /\ tempDir' \in { tempDir, NoTempDir }
           ELSE /\ validation' = [validation EXCEPT
                                     !.pc = "previous",
                                     !.rootNodeOfUpdatezip = rootNodeOfUpdatezip]
                /\ tempDir' = NoTempDir
    /\ UNCHANGED generateRun

\* validateUpdateZip from the tree of the previous distribution to its end:
\* the removed files are looked up as the descriptor lists them
ValidatePrevious ==
    /\ validation.pc = "previous"
    /\ LET rootNode == readZipFrom(createNewNode, previousDist, 1)
           missingRemoved ==
               checkFileExistsInNodeTree(rootNode,
                                         validation.updateDescriptor.File_changes.Removed_files, 1)
       IN  validation' = [validation EXCEPT
                             !.pc = IF missingRemoved # << >> THEN "failed" ELSE "done",
                             !.rootNodeOfPreviousDistribution = rootNode,
                             !.error = missingRemoved]
    /\ UNCHANGED << generateRun, tempDir >>

ValidateNext ==
    \/ ValidateLoad
    \/ ValidateUpdateZipTree
    \/ ValidatePrevious

\* the paths a descriptor given to validate lists
ListedPaths ==
    { << "a", "/", "x" >>, << "a", "/", "y" >>, << "a" >>, << "a", "/" >> }

\* the lengths of the three lists of a descriptor: at most MaxListed paths together
ListLengths ==
    { n \in [{ "added", "modified", "removed" } -> 0..MaxListed] :
        n["added"] + n["modified"] + n["removed"] <= MaxListed }

\* the descriptors an update zip given to validate holds
Descriptors ==
    UNION { { [NewDescriptor EXCEPT !.File_changes = [Added_files    |-> added,
                                                      Removed_files  |-> removed,
                                                      Modified_files |-> modified]] :
                added \in [1..n["added"] -> ListedPaths],
                modified \in [1..n["modified"] -> ListedPaths],
                removed \in [1..n["removed"] -> ListedPaths] } : n \in ListLengths }

\* what is below carbon.home in the directory an update zip was made of
CarbonHomes ==
    { f \in UNION { [S -> { 1 }] : S \in SUBSET { << "a", "/", "x" >>, << "a", "/", "y" >>, << "a" >> } } :
        \A q \in DOMAIN f : ~DestinationBlocked(f, q) }

\* The update zip given to validate is made of any directory with or without
\* a descriptor, the previous distribution is any list of at most
\* MaxValidateEntries entries; no run of generate is under way.
ValidateInit ==
    /\ updateZip \in { << [exists |-> TRUE, resources |-> TRUE, descriptor |-> dsc, files |-> f] >> :
                         dsc \in { << >> } \cup { << d >> : d \in Descriptors },
                         f \in CarbonHomes }
    /\ previousDist \in Archives(MaxValidateEntries)
    /\ updatedDist = << >>
    /\ descriptorFile = NewDescriptor
    /\ fault = NoFault
    /\ pc = "done"
    /\ idx = 1
    /\ copying = "added"
    /\ openStreams = { }
    /\ rootNodeOfUpdatedDistribution = createNewNode
    /\ rootNodeOfPreviousDistribution = createNewNode
    /\ modifiedFiles = { }
    /\ removedFiles = { }
    /\ addedFiles = { }
    /\ updateDescriptor = NewDescriptor
    /\ tempDir = NoTempDir
    /\ validation = NotValidated

ValidateSpec == ValidateInit /\ [][ValidateNext]_vars

\* generate on two distributions with a new descriptor, and validate on the
\* update zip and the previous distribution of that run
GenerateValidateInit == FeatureInit /\ descriptorFile = NewDescriptor

GenerateValidateNext == Next \/ ValidateNext

GenerateValidateSpec == GenerateValidateInit /\ [][GenerateValidateNext]_vars

\* ------------------------------------------------------------------------
\* C22  The contract of validate
\* ------------------------------------------------------------------------

\* the tree of the update zip and the tree of the previous distribution
UpdateZipTree == readZipFrom(createNewNode, updateZipReader, 1)

PreviousTree == readZipFrom(createNewNode, previousDist, 1)

\* a path exists in a tree: the descent by its segments finds a node at
\* every level
ExistsIn(tree, r) == Reaches(tree, r)

\* a path exists in a tree as what its form says: the node the descent ends
\* at is a directory when the path ends in "/" and a file when it does not
ExistsAsListed(tree, r) ==
    Reaches(tree, r) /\ ( tree[Split(r, "/")].isDir <=> HasSuffix(r, "/") )

\* the paths of the descriptor in the update zip in the order validate looks
\* them up: added and modified with carbon.home prefixed, then removed
ListedInOrder ==
    LET changes == updateZip[1].descriptor[1].File_changes
    IN  addPathPrefix(changes.Added_files) \o addPathPrefix(changes.Modified_files)
            \o changes.Removed_files

\* how many of these paths are to be found in the tree of the update zip
InUpdateZip ==
    LET changes == updateZip[1].descriptor[1].File_changes
    IN  Len(changes.Added_files) + Len(changes.Modified_files)

\* the listed paths that do not exist, for a meaning of "exists"
Missing(Exists(_, _)) ==
    LET updateTree == UpdateZipTree
        previousTree == PreviousTree
        listed == ListedInOrder
        inUpdateZip == InUpdateZip
    IN  { k \in 1..Len(listed) :
            ~Exists(IF k <= inUpdateZip THEN updateTree ELSE previousTree, listed[k]) }

\* validate has ended on an update zip that holds a descriptor
Validated == validation.pc \in { "done", "failed" } /\ updateZip[1].descriptor # << >>

\* the contract for a meaning of "exists": success exactly when nothing is
\* missing, else an error naming the first missing path
Contract(Exists(_, _)) ==
    Validated =>
        LET missing == Missing(Exists)
        IN  /\ validation.pc = "done" <=> missing = { }
            /\ validation.pc = "failed" =>
                   \E k \in missing :
                       /\ \A j \in missing : k <= j
                       /\ validation.error = << ListedInOrder[k] >>

\* C22 as stated: validateUpdateZip completes successfully if and only if
\* every path listed under added_files and modified_files exists, with
\* carbon.home prefixed, in the tree built from the update zip and every path
\* listed under removed_files exists in the tree built from the previous
\* distribution; otherwise it aborts with an error naming the first missing
\* path.
C22_ValidateContract == Contract(ExistsIn)

\* C22 amended: validateUpdateZip completes successfully if and only if
\* every listed path exists in its tree as a directory when it ends in "/"
\* and as a file when it does not; otherwise it aborts with an error naming
\* the first path that does not.
C22_ValidateContractAsListed == Contract(ExistsAsListed)

\* validate has aborted on a descriptor with a missing added or modified path
\* and a missing removed path
C22_Witness ==
    /\ Validated
    /\ validation.pc = "failed"
    /\ \E k, j \in Missing(ExistsAsListed) : k <= InUpdateZip /\ InUpdateZip < j

\* ------------------------------------------------------------------------
\* C29  generate, then validate
\* ------------------------------------------------------------------------

\* C29: when validate has run on the update zip of a finished run of
\* generate and on the previous distribution of that run, it has not
\* aborted: every entry of Removed_files was found in the tree of the
\* previous distribution, and every entry of Added_files and Modified_files
\* as a file under carbon.home in the tree of the update zip.
C29_GenerateThenValidate ==
    ( pc = "done" /\ validation.pc \in { "done", "failed" } ) => validation.pc = "done"

====
